---- MODULE Spec2Model ----
(***************************************************************************)
(* Model of bot_cronograma_escolar.py: the subscriber store                *)
(* (subscribers.json, load_subs / save_subs, /start and /stop), the        *)
(* one-shot reminder jobs (schedule_jobs / notify) and the event queries   *)
(* (load_events, /proximos, /hoje).                                        *)
(*                                                                         *)
(* Time is an instant in minutes (UTC); a calendar date is its proleptic   *)
(* ordinal (datetime.date.toordinal).                                      *)
(***************************************************************************)
EXTENDS Integers, Sequences, FiniteSets, TLC

VARIABLES
    file,      \* subscribers.json: [exists, text], text a sequence of JSON tokens
    last,      \* what the /start or /stop handler of the step just taken did and replied
    csv,       \* cronogramas/*.csv: file name -> sequence of rows
    now,       \* the wall clock, an instant
    phase,     \* "down" (process not running) or "serving"
    jobs,      \* the job queue of this process run: sequence of job records
    runs,      \* number of process starts so far
    fires,     \* history: event index -> number of notify runs started, all runs
    answer     \* what the /proximos or /hoje handler of the step just taken replied

vars == <<file, last, csv, now, phase, jobs, runs, fires, answer>>

\* ------------------------------------------------------------------ bounds

MaxChat == 2

Chats == 1..MaxChat

\* ------------------------------------------------------- sequence helpers

Range(s) == {s[i] : i \in 1..Len(s)}

Count(x, s) == Cardinality({i \in 1..Len(s) : s[i] = x})

NoDup(s) == \A i, j \in 1..Len(s) : i # j => s[i] # s[j]

Prefix(s, n) == SubSeq(s, 1, n)

\* list.remove(x): drops the first occurrence of x
RemoveFirst(s, x) ==
    LET i == CHOOSE k \in 1..Len(s) : s[k] = x /\ \A j \in 1..(k - 1) : s[j] # x
    IN  SubSeq(s, 1, i - 1) \o SubSeq(s, i + 1, Len(s))

\* ------------------------------------------- subscribers.json as JSON text

Num(c) == [t |-> "num", v |-> c]

Punct(p) == [t |-> p, v |-> 0]

\* json.dumps of a list of ints: "[", then the numbers separated by ",", then "]"
RECURSIVE dumps_items(_)
dumps_items(subs) ==
    IF Len(subs) = 0 THEN <<>>
    ELSE IF Len(subs) = 1 THEN <<Num(subs[1])>>
    ELSE <<Num(subs[1]), Punct(",")>> \o dumps_items(Tail(subs))

json_dumps(subs) == <<Punct("[")>> \o dumps_items(subs) \o <<Punct("]")>>

\* the items between the brackets: number ("," number)*
RECURSIVE loads_items(_)
loads_items(toks) ==
    IF Len(toks) = 0 THEN [ok |-> FALSE, val |-> <<>>]
    ELSE IF toks[1].t # "num" THEN [ok |-> FALSE, val |-> <<>>]
    ELSE IF Len(toks) = 1 THEN [ok |-> TRUE, val |-> <<toks[1].v>>]
    ELSE IF toks[2].t # "," THEN [ok |-> FALSE, val |-> <<>>]
    ELSE LET rest == loads_items(SubSeq(toks, 3, Len(toks)))
         IN  [ok |-> rest.ok, val |-> <<toks[1].v>> \o rest.val]

\* json.loads: the list, or ok = FALSE where it raises (empty or cut-off text)
json_loads(text) ==
    IF Len(text) < 2 \/ text[1].t # "[" \/ text[Len(text)].t # "]"
    THEN [ok |-> FALSE, val |-> <<>>]
    ELSE IF Len(text) = 2 THEN [ok |-> TRUE, val |-> <<>>]
    ELSE loads_items(SubSeq(text, 2, Len(text) - 1))

\* load_subs: [] when the file is missing, when read_text raises (readErr) and
\* when json.loads raises; the parsed list otherwise
load_subs_of(f, readErr) ==
    IF ~f.exists THEN <<>>
    ELSE IF readErr THEN <<>>
    ELSE LET r == json_loads(f.text) IN IF r.ok THEN r.val ELSE <<>>

\* variant: a list kept in memory is shared with the fan-out in flight
load_subs_shared(readErr) ==
    IF \E j \in 1..Len(jobs) : jobs[j].st = "running"
    THEN jobs[CHOOSE j \in 1..Len(jobs) : jobs[j].st = "running"].subs
    ELSE load_subs_of(file, readErr)

load_subs(readErr) == load_subs_of(file, readErr)

\* list(): what load_subs returns in this state
StoreList == load_subs_of(file, FALSE)

\* Outcomes of SUBS_FILE.write_text: "ok"; "open" (the open for writing raises,
\* nothing is touched); n >= 0 (the file was truncated by the open and the write
\* raised after n tokens reached it).
WriteOpenErr == -2
WriteOk == -1

WriteOutcomes(subs) == {WriteOk, WriteOpenErr} \cup (0..(Len(json_dumps(subs)) - 1))

\* save_subs: the file after it; every exception is caught and logged
save_subs(subs, w) ==
    IF w = WriteOk THEN [exists |-> TRUE, text |-> json_dumps(subs)]
    ELSE IF w = WriteOpenErr THEN file
    ELSE [exists |-> TRUE, text |-> Prefix(json_dumps(subs), w)]

\* ------------------------------------------------------------ /start, /stop

NoAnswer == [cmd |-> "none", none |-> TRUE, groups |-> <<>>]

NoReply == [cmd |-> "none", cid |-> 0, rf |-> FALSE, wr |-> "none", reply |-> "none"]

WriteResult(w) == IF w = WriteOk THEN "ok" ELSE "error"

\* variant: start appends and saves without looking for cid in the list
start_update_nocheck(subs, cid) == [save |-> TRUE, subs |-> Append(subs, cid)]

\* The update start makes to the list it loaded: append cid and save unless
\* cid is already there
start_update(subs, cid) ==
    IF cid \notin Range(subs)
    THEN [save |-> TRUE, subs |-> Append(subs, cid)]
    ELSE [save |-> FALSE, subs |-> subs]

\* /start from chat cid.  rf: read_text raises inside load_subs; w: the outcome
\* of write_text inside save_subs; replyErr: the confirmation reply_text raises,
\* so the except branch answers "Ocorreu um erro".
start(cid, rf, w, replyErr) ==
    /\ phase = "serving"
    /\ rf => file.exists
    /\ LET u == start_update(load_subs(rf), cid)
       IN  /\ IF u.save THEN w \in WriteOutcomes(u.subs) ELSE w = WriteOk
           /\ file' = IF u.save THEN save_subs(u.subs, w) ELSE file
           /\ last' = [cmd |-> "start", cid |-> cid, rf |-> rf,
                       wr |-> IF u.save THEN WriteResult(w) ELSE "none",
                       reply |-> IF replyErr THEN "erro" ELSE "inscrito"]
    /\ UNCHANGED <<csv, now, phase, jobs, runs, fires>>
    /\ answer' = NoAnswer

\* The update stop makes to the list it loaded: remove cid and save if present
stop_update(subs, cid) ==
    IF cid \in Range(subs)
    THEN [save |-> TRUE, subs |-> RemoveFirst(subs, cid)]
    ELSE [save |-> FALSE, subs |-> subs]

\* /stop from chat cid
stop(cid, rf, w, replyErr) ==
    /\ phase = "serving"
    /\ rf => file.exists
    /\ LET u == stop_update(load_subs(rf), cid)
       IN  /\ IF u.save THEN w \in WriteOutcomes(u.subs) ELSE w = WriteOk
           /\ file' = IF u.save THEN save_subs(u.subs, w) ELSE file
           /\ last' = [cmd |-> "stop", cid |-> cid, rf |-> rf,
                       wr |-> IF u.save THEN WriteResult(w) ELSE "none",
                       reply |-> IF replyErr THEN "erro" ELSE "removido"]
    /\ UNCHANGED <<csv, now, phase, jobs, runs, fires>>
    /\ answer' = NoAnswer

\* ------------------------------------------------------------------- dates

IsLeap(y) == (y % 4 = 0) /\ ((y % 100 # 0) \/ (y % 400 = 0))

DaysInMonth(y, m) ==
    IF m = 2 THEN (IF IsLeap(y) THEN 29 ELSE 28)
    ELSE IF m \in {4, 6, 9, 11} THEN 30 ELSE 31

RECURSIVE DaysBeforeMonth(_, _)
DaysBeforeMonth(y, m) ==
    IF m = 1 THEN 0 ELSE DaysBeforeMonth(y, m - 1) + DaysInMonth(y, m - 1)

\* datetime.date(y, m, d).toordinal()
Ordinal(y, m, d) ==
    LET p == y - 1
    IN  p * 365 + (p \div 4) - (p \div 100) + (p \div 400) + DaysBeforeMonth(y, m) + d

\* The date field of a CSV row after s.strip(): day/month/year, the year written
\* with yd digits (dd and mm are one or two digits).
RawDate(d, m, y, yd) == [dd |-> d, mm |-> m, yy |-> y, yd |-> yd]

NoDate == [ok |-> FALSE, date |-> 0]

ValidDate(y, m, d) == m \in 1..12 /\ d >= 1 /\ d <= DaysInMonth(y, m)

\* datetime.strptime(s, "%d/%m/%Y").date(): %Y takes exactly four digits
strptime_Y(s) ==
    IF s.yd = 4 /\ s.yy >= 1 /\ ValidDate(s.yy, s.mm, s.dd)
    THEN [ok |-> TRUE, date |-> Ordinal(s.yy, s.mm, s.dd)]
    ELSE NoDate

\* datetime.strptime(s, "%d/%m/%y").date(): %y takes exactly two digits,
\* 69..99 -> 19xx, 00..68 -> 20xx
strptime_y(s) ==
    LET y == IF s.yy <= 68 THEN 2000 + s.yy ELSE 1900 + s.yy
    IN  IF s.yd = 2 /\ ValidDate(y, s.mm, s.dd)
        THEN [ok |-> TRUE, date |-> Ordinal(y, s.mm, s.dd)]
        ELSE NoDate

\* parse_date: the first format that parses, None (ok = FALSE) when neither does
parse_date(s) ==
    IF strptime_Y(s).ok THEN strptime_Y(s)
    ELSE IF strptime_y(s).ok THEN strptime_y(s)
    ELSE NoDate

\* --------------------------------------------------------------- load_events

\* The CSV files of cronogramas/, in glob order.  The header of each is
\* data;hora;titulo;descricao;local; a row is [data, n, titulo, descricao,
\* local] with n the number of fields on its line: csv.DictReader gives the
\* fields past n the value None.  descricao and local are sequences of
\* characters, titulo (which the code takes as it is) a string.
Files == <<"theo_turma.csv", "liz.csv">>

NumFields == 5

RECURSIVE lstrip(_)
lstrip(s) == IF Len(s) > 0 /\ s[1] = " " THEN lstrip(Tail(s)) ELSE s

RECURSIVE rstrip(_)
rstrip(s) == IF Len(s) > 0 /\ s[Len(s)] = " " THEN rstrip(SubSeq(s, 1, Len(s) - 1)) ELSE s

\* str.strip(), of blanks
strip(s) == rstrip(lstrip(s))

\* The rows of one file: a row whose date does not parse is skipped; a row
\* with a date and fewer than five fields has descricao or local None, and
\* None.strip() raises: the except around the file ends the reading of that
\* file, the events appended before stay.
RECURSIVE load_rows(_, _)
load_rows(rows, src) ==
    IF Len(rows) = 0 THEN <<>>
    ELSE LET row == Head(rows)
             d   == parse_date(row.data)
         IN  IF ~d.ok THEN load_rows(Tail(rows), src)
             ELSE IF row.n < NumFields THEN <<>>
             ELSE <<[date  |-> d.date,
                     title |-> IF row.n < 3 \/ row.titulo = "" THEN "(sem titulo)" ELSE row.titulo,
                     descr |-> strip(row.descricao),
                     local |-> strip(row.local),
                     src   |-> src]>> \o load_rows(Tail(rows), src)

RECURSIVE load_files(_, _)
load_files(c, names) ==
    IF Len(names) = 0 THEN <<>>
    ELSE load_rows(c[Head(names)], Head(names)) \o load_files(c, Tail(names))

load_events_of(c) == load_files(c, Files)

load_events == load_events_of(csv)

\* -------------------------------------------------------------------- time

HOUR == 14

\* datetime.now(TZ): America/Sao_Paulo is UTC-03:00, so local = instant - 180 min
UtcOffset == 180

\* tzinfo=TZ hands datetime.combine the zone's un-localized pytz tzinfo, whose
\* offset is the zone's first entry, local mean time -03:06
LmtOffset == 186

DayMinutes == 24 * 60

\* the instant of wall-clock minute m of day d, read with an offset of off
\* minutes west of UTC
Instant(d, m, off) == d * DayMinutes + m + off

\* datetime.now(TZ).date()
LocalDate(t) == (t - UtcOffset) \div DayMinutes

\* minutes after local midnight of the instant t
LocalMinute(t) == (t - UtcOffset) % DayMinutes

\* schedule_jobs: run_dt = datetime.combine(ev.date - 1 day, time(HOUR, 0), tzinfo=TZ)
run_dt(ev) == Instant(ev.date - 1, HOUR * 60, LmtOffset)

\* ------------------------------------------------------ schedule_jobs, notify

MaxDay == 1

MaxEvents == 2

MaxRuns == 2

\* the instants the clock takes: HOUR:00 local and HOUR:00 read in local mean
\* time (HOUR:06 local), on the days from 08/05/2025 on
FirstDay == Ordinal(2025, 5, 8)

ClockMarks == {HOUR * 60, HOUR * 60 + (LmtOffset - UtcOffset)}

TimePoints == {Instant(d, m, UtcOffset) : d \in FirstDay..(FirstDay + MaxDay), m \in ClockMarks}

\* The characters of a source's file name (csv_path.name)
NameChars(src) ==
    IF src = "theo_turma.csv"
    THEN <<"t", "h", "e", "o", "_", "t", "u", "r", "m", "a", ".", "c", "s", "v">>
    ELSE <<"l", "i", "z", ".", "c", "s", "v">>

\* str.lower(), on the letters of the marker
lower_char(c) ==
    IF c = "T" THEN "t" ELSE IF c = "H" THEN "h" ELSE IF c = "E" THEN "e"
    ELSE IF c = "O" THEN "o" ELSE c

lower(s) == [i \in 1..Len(s) |-> lower_char(s[i])]

\* m in s, of strings
contains(s, m) == \E i \in 1..(Len(s) - Len(m) + 1) : SubSeq(s, i, i + Len(m) - 1) = m

\* the label of a source in /proximos and /hoje:
\* "Theo" if "theo" in src.lower() else "Liz"
nome(src) ==
    IF contains(lower(NameChars(src)), <<"t", "h", "e", "o">>) THEN "Theo" ELSE "Liz"

\* date.fromordinal: the year and the month an ordinal falls in
YearOf(ord) ==
    CHOOSE y \in (ord \div 366)..(ord \div 365 + 1) :
        Ordinal(y, 1, 1) <= ord /\ ord < Ordinal(y + 1, 1, 1)

MonthOf(ord) ==
    CHOOSE m \in 1..12 :
        /\ Ordinal(YearOf(ord), m, 1) <= ord
        /\ ord <= Ordinal(YearOf(ord), m, DaysInMonth(YearOf(ord), m))

\* date.strftime("%d/%m"): day and month
strftime_dm(ord) == <<ord - Ordinal(YearOf(ord), MonthOf(ord), 1) + 1, MonthOf(ord)>>

NoMsg == [data |-> <<>>, evento |-> "", local |-> <<>>, descr |-> <<>>, cronograma |-> ""]

\* The message notify builds: the lines Data and Evento, the line Local if
\* ev["local"] is not empty, the line Descricao if ev["descr"] is not empty
\* (local and descr: the lines present, zero or one), and the line
\* "Cronograma: " with ev["src"]
notify_msg(ev) ==
    [data       |-> strftime_dm(ev.date),
     evento     |-> ev.title,
     local      |-> IF Len(ev.local) > 0 THEN <<ev.local>> ELSE <<>>,
     descr      |-> IF Len(ev.descr) > 0 THEN <<ev.descr>> ELSE <<>>,
     cronograma |-> ev.src]

\* variant: no test, past events are armed as well (and fire at once)
should_arm_always(run, t) == TRUE

\* variant: the test lets through a run_dt equal to now
should_arm_at_now(run, t) == run >= t

\* the test of schedule_jobs: arm only when run_dt is later than now
should_arm(run, t) == run > t

\* job_queue.run_once(notify, when=run_dt, data=ev) for every loaded event
\* that passes the test, in the order of load_events; evi is the event's
\* position in load_events, ev the job's data
RECURSIVE arm_from(_, _, _)
arm_from(evs, i, t) ==
    IF i > Len(evs) THEN <<>>
    ELSE (IF should_arm(run_dt(evs[i]), t)
          THEN <<[evi |-> i, ev |-> evs[i], when |-> run_dt(evs[i]), st |-> "armed",
                  rerr |-> FALSE, msg |-> NoMsg, subs |-> <<>>, log |-> <<>>]>>
          ELSE <<>>) \o arm_from(evs, i + 1, t)

\* variant: run_once is skipped for an event that has a job in the queue
schedule_pass_dedup(queue, evs, t) ==
    LET fresh(job) == \A k \in 1..Len(queue) : queue[k].evi # job.evi
    IN  queue \o SelectSeq(arm_from(evs, 1, t), fresh)

\* One call of schedule_jobs on a job queue: run_once adds a job for every
\* event that passes the test; the queue is not looked at
schedule_pass(queue, evs, t) == queue \o arm_from(evs, 1, t)

\* Process start (__main__): schedule_jobs runs once, on the new job queue,
\* before the event loop
schedule_jobs ==
    /\ phase = "down"
    /\ runs < MaxRuns
    /\ jobs' = schedule_pass(jobs, load_events, now)
    /\ phase' = "serving"
    /\ runs' = runs + 1
    /\ last' = NoReply
    /\ UNCHANGED <<file, csv, now, fires>>
    /\ answer' = NoAnswer

\* The process ends (signal_handler: sys.exit(0), or a crash): the job queue
\* and the fan-outs in flight are gone
Exit ==
    /\ phase = "serving"
    /\ phase' = "down"
    /\ jobs' = <<>>
    /\ last' = NoReply
    /\ UNCHANGED <<file, csv, now, runs, fires>>
    /\ answer' = NoAnswer

\* Time passes, to a later instant of the clock.  A one-shot timer is due at
\* its run_dt: the clock does not move past the run_dt of a job still armed,
\* and a fan-out (a few sends) is over before the next instant.
Advance(t) ==
    /\ t \in TimePoints
    /\ t > now
    /\ \A j \in 1..Len(jobs) : /\ jobs[j].st = "armed" => jobs[j].when >= t
                               /\ jobs[j].st # "running"
    /\ now' = t
    /\ last' = NoReply
    /\ UNCHANGED <<file, csv, phase, jobs, runs, fires>>
    /\ answer' = NoAnswer

\* variant: the firing keeps the list its job was created with
notify_subs_stale(j, rf) == jobs[j].subs

\* variant: a store that cannot be read falls back to every chat
notify_subs_fallback(j, rf) ==
    IF ~file.exists \/ rf \/ ~json_loads(file.text).ok
    THEN [c \in 1..MaxChat |-> c]
    ELSE load_subs(rf)

\* the recipients of a firing: load_subs() when notify starts
notify_subs(j, rf) == load_subs(rf)

\* The timer of job j fires: notify builds the message and loads the
\* subscribers; with none the loop body never runs and the job is over
notify_start(j, rf) ==
    /\ phase = "serving"
    /\ j \in 1..Len(jobs)
    /\ jobs[j].st = "armed"
    /\ now >= jobs[j].when
    /\ rf => file.exists
    /\ LET subs == notify_subs(j, rf)
       IN  jobs' = [jobs EXCEPT ![j].subs = subs, ![j].rerr = rf,
                                ![j].msg = notify_msg(jobs[j].ev),
                                ![j].st = IF Len(subs) = 0 THEN "fired" ELSE "running"]
    /\ fires' = [fires EXCEPT ![jobs[j].evi] = @ + 1]
    /\ last' = NoReply
    /\ answer' = NoAnswer
    /\ UNCHANGED <<file, csv, now, phase, runs>>

\* variant: the loop reads the list of the store again at every iteration
after_send_live(job, ok) ==
    LET cur == load_subs(FALSE)
        n   == Len(job.log) + 1
    IN  IF n > Len(cur)
        THEN [job EXCEPT !.subs = cur, !.st = "fired"]
        ELSE [job EXCEPT !.subs = cur,
                         !.log = Append(job.log, [cid |-> cur[n], ok |-> ok]),
                         !.st = IF n = Len(cur) THEN "fired" ELSE "running"]

\* variant: a failed send is scheduled again, the job goes back to armed
after_send_retry(job, ok) ==
    LET log == Append(job.log, [cid |-> job.subs[Len(job.log) + 1], ok |-> ok])
    IN  IF ok
        THEN [job EXCEPT !.log = log,
                         !.st = IF Len(log) = Len(job.subs) THEN "fired" ELSE "running"]
        ELSE [job EXCEPT !.st = "armed"]

\* variant: the exception of a failed send leaves the loop
after_send_abort(job, ok) ==
    LET log == Append(job.log, [cid |-> job.subs[Len(job.log) + 1], ok |-> ok])
    IN  [job EXCEPT !.log = log,
                    !.st = IF ~ok \/ Len(log) = Len(job.subs) THEN "fired" ELSE "running"]

\* the state of a fan-out after the send to its next recipient: the
\* exception of a failed send is caught inside the loop, which goes on
after_send(job, ok) ==
    LET log == Append(job.log, [cid |-> job.subs[Len(job.log) + 1], ok |-> ok])
    IN  [job EXCEPT !.log = log,
                    !.st = IF Len(log) = Len(job.subs) THEN "fired" ELSE "running"]

\* variant: a send that raises cancels the other jobs due at the same time
notify_send_cancel(j, ok) ==
    /\ phase = "serving"
    /\ j \in 1..Len(jobs)
    /\ jobs[j].st = "running"
    /\ jobs' = [k \in 1..Len(jobs) |->
                  IF k = j THEN after_send(jobs[j], ok)
                  ELSE IF ~ok /\ jobs[k].when = jobs[j].when /\ jobs[k].st # "fired"
                       THEN [jobs[k] EXCEPT !.st = "fired"]
                       ELSE jobs[k]]
    /\ last' = NoReply
    /\ UNCHANGED <<file, csv, now, phase, runs, fires>>
    /\ answer' = NoAnswer

\* One iteration of the loop of notify: await send_message to the next
\* recipient; ok = FALSE when it raises
notify_send(j, ok) ==
    /\ phase = "serving"
    /\ j \in 1..Len(jobs)
    /\ jobs[j].st = "running"
    /\ jobs' = [jobs EXCEPT ![j] = after_send(jobs[j], ok)]
    /\ last' = NoReply
    /\ UNCHANGED <<file, csv, now, phase, runs, fires>>
    /\ answer' = NoAnswer

\* ---------------------------------------------------------- /proximos, /hoje

LIMITE == 5

Front(s) == SubSeq(s, 1, Len(s) - 1)

\* x put into the date-sorted s behind every element whose date is <= its own
RECURSIVE insert_by_date(_, _)
insert_by_date(x, s) ==
    IF Len(s) = 0 THEN <<x>>
    ELSE IF s[Len(s)].date <= x.date THEN Append(s, x)
    ELSE Append(insert_by_date(x, Front(s)), s[Len(s)])

\* sorted(evs, key=lambda e: e["date"]): a stable sort
RECURSIVE sorted_by_date(_)
sorted_by_date(evs) ==
    IF Len(evs) = 0 THEN <<>>
    ELSE insert_by_date(evs[Len(evs)], sorted_by_date(Front(evs)))

\* the filter of proximos: the events dated today or later
from_today(evs, today) ==
    LET keep(e) == e.date >= today IN SelectSeq(evs, keep)

\* grupos.setdefault(e["src"], []).append(e): the groups in the order their
\* source first shows up, each in the order of evs
RECURSIVE group_by_src(_)
group_by_src(evs) ==
    IF Len(evs) = 0 THEN <<>>
    ELSE LET g == group_by_src(Front(evs))
             e == evs[Len(evs)]
             at == {i \in 1..Len(g) : g[i].src = e.src}
         IN  IF at = {} THEN Append(g, [src |-> e.src, lista |-> <<e>>])
             ELSE LET i == CHOOSE k \in at : TRUE
                  IN  [g EXCEPT ![i].lista = Append(@, e)]

\* variant: the slice keeps the last LIMITE events, lista[-LIMITE:]
first_of_last(lista) ==
    SubSeq(lista, IF Len(lista) < LIMITE THEN 1 ELSE Len(lista) - LIMITE + 1, Len(lista))

\* lista[:LIMITE]
first_of(lista) == SubSeq(lista, 1, IF Len(lista) < LIMITE THEN Len(lista) ELSE LIMITE)

\* /proximos: the message handed to reply_text, as the groups and the events
\* its lines are made from
proximos ==
    /\ phase = "serving"
    /\ LET today == LocalDate(now)
           evs == from_today(sorted_by_date(load_events), today)
           grupos == group_by_src(evs)
       IN  answer' = IF Len(evs) = 0
                     THEN [cmd |-> "proximos", none |-> TRUE, groups |-> <<>>]
                     ELSE [cmd |-> "proximos", none |-> FALSE,
                           groups |-> [i \in 1..Len(grupos) |->
                                         [src |-> grupos[i].src,
                                          lista |-> first_of(grupos[i].lista)]]]
    /\ last' = NoReply
    /\ UNCHANGED <<file, csv, now, phase, jobs, runs, fires>>

\* variant: the filter keeps the events dated day - 1 (today) as well
of_day_or_before(evs, day) ==
    LET keep(e) == e.date = day \/ e.date = day - 1 IN SelectSeq(evs, keep)

\* the filter of hoje: the events dated tomorrow
of_day(evs, day) ==
    LET keep(e) == e.date = day IN SelectSeq(evs, keep)

\* /hoje: the events of tomorrow, tomorrow = (datetime.now(TZ) + 1 day).date()
hoje ==
    /\ phase = "serving"
    /\ LET tomorrow == LocalDate(now + DayMinutes)
           evs == of_day(load_events, tomorrow)
           grupos == group_by_src(evs)
       IN  answer' = IF Len(evs) = 0
                     THEN [cmd |-> "hoje", none |-> TRUE, groups |-> <<>>]
                     ELSE [cmd |-> "hoje", none |-> FALSE, groups |-> grupos]
    /\ last' = NoReply
    /\ UNCHANGED <<file, csv, now, phase, jobs, runs, fires>>

\* A line is appended to a file of cronogramas/ (the files are read again by
\* every load_events)
AddRow(f, row) ==
    /\ csv' = [csv EXCEPT ![f] = Append(@, row)]
    /\ last' = NoReply
    /\ answer' = NoAnswer
    /\ UNCHANGED <<file, now, phase, jobs, runs, fires>>

\* ------------------------------------------------------------ specifications

MissingFile == [exists |-> FALSE, text |-> <<>>]

EmptyStore == [exists |-> TRUE, text |-> json_dumps(<<>>)]

RowText(data, n, titulo, descricao, local) ==
    [data |-> data, n |-> n, titulo |-> titulo, descricao |-> descricao, local |-> local]

Row(data, n) == RowText(data, n, "Prova", <<>>, <<>>)

\* the schedules of the scheduler runs: theo_turma.csv holds the first k <=
\* MaxEvents rows of 10/05/2025, 10/05/25 (the same day), 09/05/25, ... or
\* of 09/05/25, 10/05/2025, 10/05/25, ...
SchedRow(i) ==
    IF i % 3 = 1 THEN Row(RawDate(10, 5, 2025, 4), NumFields)
    ELSE IF i % 3 = 2 THEN Row(RawDate(10, 5, 25, 2), NumFields)
    ELSE Row(RawDate(9, 5, 25, 2), NumFields)

SchedCsvs == {[f \in Range(Files) |-> IF f = Files[1] THEN [i \in 1..k |-> SchedRow(i + o)] ELSE <<>>] :
                 k \in 0..MaxEvents, o \in {0, 2}}

Init ==
    /\ file = MissingFile
    /\ last = NoReply
    /\ csv \in SchedCsvs
    /\ now \in TimePoints
    /\ phase = "down"
    /\ jobs = <<>>
    /\ runs = 0
    /\ fires = [i \in 1..Len(load_events_of(csv)) |-> 0]
    /\ answer = NoAnswer

\* The scheduler with the subscriptions: the process starts and ends, time
\* passes, timers fire and fan out with sends and reads of the store that may
\* fail, chats subscribe and unsubscribe, the write of the store succeeding
\* or leaving an empty file.  (Every fault of the store is in SpecStore; the
\* queries, which change nothing here, are in SpecQuery and SpecLoad.)
Next ==
    \/ schedule_jobs
    \/ Exit
    \/ \E t \in TimePoints : Advance(t)
    \/ \E j \in 1..Len(jobs), rf \in BOOLEAN : notify_start(j, rf)
    \/ \E j \in 1..Len(jobs), ok \in BOOLEAN : notify_send(j, ok)
    \/ \E c \in Chats, w \in {WriteOk, 0} : start(c, FALSE, w, FALSE)
    \/ \E c \in Chats, w \in {WriteOk, 0} : stop(c, FALSE, w, FALSE)

Spec == Init /\ [][Next]_vars

\* The subscriber store alone, with every fault of its file and of the reply
InitStore ==
    /\ file \in {MissingFile, EmptyStore}
    /\ last = NoReply
    /\ csv = [f \in Range(Files) |-> <<>>]
    /\ now = Instant(FirstDay, HOUR * 60, UtcOffset)
    /\ phase = "down"
    /\ jobs = <<>>
    /\ runs = 0
    /\ fires = <<>>
    /\ answer = NoAnswer

NextStore ==
    \/ schedule_jobs
    \/ Exit
    \/ \E c \in Chats, rf, re \in BOOLEAN, w \in WriteOpenErr..(2 * MaxChat) : start(c, rf, w, re)
    \/ \E c \in Chats, rf, re \in BOOLEAN, w \in WriteOpenErr..(2 * MaxChat) : stop(c, rf, w, re)

SpecStore == InitStore /\ [][NextStore]_vars

\* ------------------------------------------------------------ the scheduler

JobIds == 1..Len(jobs)

SameRun == phase = "serving" /\ phase' = "serving"

IsPrefix(s, t) == Len(s) <= Len(t) /\ SubSeq(t, 1, Len(s)) = s

\* the moves of one job within a process run
JobMove(a, b) ==
    /\ b.evi = a.evi
    /\ b.when = a.when
    /\ a.st = "armed" => b.st \in {"armed", "running", "fired"}
    /\ a.st = "running" => /\ b.st \in {"running", "fired"}
                           /\ b.subs = a.subs
                           /\ IsPrefix(a.log, b.log)
                           /\ Len(b.log) <= Len(a.log) + 1
    /\ a.st = "fired" => b = a

\* C1: every armed job goes armed -> running (its notify run) -> fired and
\* stays there: within a process run no job is added, re-armed or retried, a
\* fired job never changes again, whatever the sends did, and over all runs
\* no event's notify is started twice.
C1_JobLifecycle ==
    [][/\ \A i \in DOMAIN fires : fires'[i] <= 1
       /\ SameRun => /\ Len(jobs') = Len(jobs)
                     /\ \A j \in JobIds : JobMove(jobs[j], jobs'[j])]_vars

\* a job is over although one of its sends failed
C1_Witness ==
    \E j \in JobIds : /\ jobs[j].st = "fired"
                      /\ \E i \in 1..Len(jobs[j].log) : ~jobs[j].log[i].ok

\* C2: the scheduling pass arms exactly the loaded events whose run_dt is
\* strictly later than now: every job it creates has when > now, and an event
\* with run_dt <= now gets no job (so nothing can fire it).
C2_ArmOnlyFuture ==
    [][(phase = "down" /\ phase' = "serving") =>
         LET evs == load_events
         IN  /\ \A j \in 1..Len(jobs') : /\ jobs'[j].when > now
                                         /\ jobs'[j].st = "armed"
                                         /\ jobs'[j].when = run_dt(evs[jobs'[j].evi])
             /\ \A i \in 1..Len(evs) :
                  Cardinality({j \in 1..Len(jobs') : jobs'[j].evi = i})
                    = IF run_dt(evs[i]) > now THEN 1 ELSE 0]_vars

\* one loaded event was skipped as past and another one armed
C2_Witness ==
    /\ phase = "serving"
    /\ Len(jobs) >= 1
    /\ Len(jobs) < Len(load_events)
    /\ \A j \in JobIds : jobs[j].st = "armed"

\* the jobs of queue armed for the event at position i of load_events
JobsOf(queue, i) == Cardinality({j \in 1..Len(queue) : queue[j].evi = i /\ queue[j].st = "armed"})

Due(i) == IF should_arm(run_dt(load_events[i]), now) THEN 1 ELSE 0

\* C13: schedule_jobs runs once per process start, so a process holds at
\* most one job per loaded event; the pass itself does not look at the queue:
\* while no job has fired, a second and a third pass over the same events
\* would add one more job each for every event still in the future.
C13_NoDeduplication ==
    phase = "serving" =>
        /\ \A i \in 1..Len(load_events) :
             Cardinality({j \in JobIds : jobs[j].evi = i}) <= 1
        /\ (\A j \in JobIds : jobs[j].st = "armed") =>
             LET second == schedule_pass(jobs, load_events, now)
                 third  == schedule_pass(second, load_events, now)
             IN  \A i \in 1..Len(load_events) :
                     /\ JobsOf(second, i) = JobsOf(jobs, i) + Due(i)
                     /\ JobsOf(third, i) = JobsOf(jobs, i) + 2 * Due(i)

\* two future events armed, none fired: a second pass would make four jobs
C13_Witness ==
    /\ phase = "serving"
    /\ Len(jobs) = 2
    /\ \A j \in JobIds : jobs[j].st = "armed"
    /\ \A i \in 1..Len(load_events) : Due(i) = 1
    /\ Len(schedule_pass(jobs, load_events, now)) = 4

\* C14: over all process runs, the clock never going back and the schedules
\* unchanged, no event's reminder is dispatched twice: a job always carries
\* the run_dt of its event (a restart before it arms the same fire time
\* again), and once an event's notify has started (fan-out finished or cut
\* by the exit) no later run holds an armed job for it.
C14_OncePerEventOverRestarts ==
    \A i \in DOMAIN fires :
        /\ fires[i] <= 1
        /\ fires[i] = 1 => now >= run_dt(load_events[i])
        /\ \A j \in JobIds :
             jobs[j].evi = i => /\ jobs[j].when = run_dt(load_events[i])
                                /\ jobs[j].st = "armed" => fires[i] = 0
                                /\ jobs[j].st # "armed" => fires[i] = 1

\* the second run, started when the first event's fire time had come and its
\* reminder had gone out: no job for it, the later event is armed again
C14_Witness ==
    /\ runs = 2
    /\ phase = "serving"
    /\ \E i \in DOMAIN fires : /\ fires[i] = 1
                                /\ \A j \in JobIds : jobs[j].evi # i
    /\ \E j \in JobIds : /\ jobs[j].st = "armed"
                          /\ fires[jobs[j].evi] = 0
                          /\ jobs[j].when > now

\* C15: the recipients of a firing are the list notify loaded when it
\* started: while the fan-out is suspended on a send, a /start or /stop
\* changes the store and leaves the fan-out as it is, and every send goes to
\* the next recipient of that list, none skipped, none repeated.
C15_SnapshotIteration ==
    [][\A j \in JobIds :
         (SameRun /\ jobs[j].st = "running") =>
             /\ jobs'[j].subs = jobs[j].subs
             /\ NoDup(jobs[j].subs)
             /\ file' # file => jobs'[j] = jobs[j]
             /\ jobs'[j].log # jobs[j].log =>
                  /\ jobs'[j].log = Append(jobs[j].log, jobs'[j].log[Len(jobs'[j].log)])
                  /\ jobs'[j].log[Len(jobs'[j].log)].cid = jobs[j].subs[Len(jobs[j].log) + 1]
             /\ jobs'[j].st = "fired" => Len(jobs'[j].log) = Len(jobs[j].subs)]_vars

\* a fan-out is suspended on the send to a chat that has just unsubscribed,
\* and the store holds a chat that subscribed after the fan-out began
C15_Witness ==
    /\ last.cmd = "stop"
    /\ last.wr = "ok"
    /\ \E j \in JobIds :
         /\ jobs[j].st = "running"
         /\ jobs[j].subs[Len(jobs[j].log) + 1] = last.cid
         /\ last.cid \notin Range(StoreList)
         /\ \E d \in Range(StoreList) : d \notin Range(jobs[j].subs)

\* the sends job made to chat c
SendsTo(job, c) == Cardinality({i \in 1..Len(job.log) : job.log[i].cid = c})

\* C16: two jobs due at the same time fire independently and no more than
\* once each, however their fan-outs interleave: a step of one (its start, a
\* send, a failed send) leaves the other as it is, and when both are over
\* every chat that was in both snapshots was sent exactly one message by
\* each, whatever the sends of the other did.
C16_SameTimeJobsIndependent ==
    [][SameRun =>
         \A j, k \in JobIds :
             (j # k /\ jobs[j].when = jobs[k].when) =>
                 /\ jobs'[j] # jobs[j] => jobs'[k] = jobs[k]
                 /\ fires'[jobs[j].evi] <= 1
                 /\ (jobs'[j].st = "fired" /\ jobs'[k].st = "fired") =>
                      \A c \in Range(jobs'[j].subs) \cap Range(jobs'[k].subs) :
                          SendsTo(jobs'[j], c) = 1 /\ SendsTo(jobs'[k], c) = 1]_vars

\* two fan-outs due at the same time are under way together, each with two
\* recipients: the first send of one failed, the first send of the other
\* went through
C16_Witness ==
    \E j, k \in JobIds :
        /\ j # k
        /\ jobs[j].when = jobs[k].when
        /\ jobs[j].st = "running" /\ jobs[k].st = "running"
        /\ Len(jobs[j].subs) = 2 /\ Len(jobs[k].subs) = 2
        /\ Len(jobs[j].log) = 1 /\ ~jobs[j].log[1].ok
        /\ Len(jobs[k].log) = 1 /\ jobs[k].log[1].ok

\* C3: every job's fire time is HOUR:00 on the local wall clock of the day
\* before its event's date.
C3_FireAtHourSharp ==
    \A j \in JobIds :
        /\ LocalDate(jobs[j].when) = load_events[jobs[j].evi].date - 1
        /\ LocalMinute(jobs[j].when) = HOUR * 60

\* C4: when the timer of a job fires and the store can be read, the firing's
\* recipients are the list persisted at that moment, whatever it was when the
\* job was armed.
C4_RecipientsAtFireTime ==
    [][\A j \in JobIds :
         (SameRun /\ jobs[j].st = "armed" /\ jobs'[j].st # "armed" /\ ~jobs'[j].rerr)
           => jobs'[j].subs = load_subs_of(file, FALSE)]_vars

\* In the first process run the store was empty when the jobs were armed: a
\* chat that subscribed later got the reminder, one that subscribed and left
\* again before the firing did not.
C4_Witness ==
    /\ runs = 1
    /\ \E j \in JobIds : /\ jobs[j].st = "fired"
                         /\ Len(jobs[j].log) = 1
                         /\ jobs[j].log[1].ok

\* C5: a fan-out attempts every recipient of its snapshot once, in order,
\* whatever the earlier sends did: a job is fired only with one log entry per
\* recipient, a running one has sent to a proper prefix.
C5_FanOutIsolation ==
    \A j \in JobIds :
        /\ Len(jobs[j].log) <= Len(jobs[j].subs)
        /\ \A i \in 1..Len(jobs[j].log) : jobs[j].log[i].cid = jobs[j].subs[i]
        /\ jobs[j].st = "fired" => Len(jobs[j].log) = Len(jobs[j].subs)
        /\ jobs[j].st = "running" => Len(jobs[j].log) < Len(jobs[j].subs)
        /\ jobs[j].st = "armed" => Len(jobs[j].subs) = 0

\* two recipients, the send to the first failed and the second succeeded
C5_Witness ==
    \E j \in JobIds : /\ jobs[j].st = "fired"
                      /\ Len(jobs[j].subs) = 2
                      /\ ~jobs[j].log[1].ok
                      /\ jobs[j].log[2].ok

\* The reminders of events with and without a place and a description, in
\* the two schedules, one chat subscribed
OneSubscriber == [exists |-> TRUE, text |-> json_dumps(<<1>>)]

MsgRows == {RowText(RawDate(10, 5, 2025, 4), NumFields, t, d, l) :
               t \in {"Prova", ""}, d \in {<<>>, <<" ">>, <<"x", " ">>}, l \in {<<>>, <<"s", "2">>}}

MsgCsvs == {[f \in Range(Files) |-> IF f = Files[1] THEN <<a>> ELSE <<b>>] : a, b \in MsgRows}

InitMsg ==
    /\ file = OneSubscriber
    /\ last = NoReply
    /\ csv \in MsgCsvs
    /\ now = Instant(FirstDay, HOUR * 60, UtcOffset)
    /\ phase = "down"
    /\ jobs = <<>>
    /\ runs = 0
    /\ fires = [i \in 1..Len(load_events_of(csv)) |-> 0]
    /\ answer = NoAnswer

NextMsg ==
    \/ schedule_jobs
    \/ Exit
    \/ \E t \in TimePoints : Advance(t)
    \/ \E j \in 1..Len(jobs) : notify_start(j, FALSE)
    \/ \E j \in 1..Len(jobs), ok \in BOOLEAN : notify_send(j, ok)

SpecMsg == InitMsg /\ [][NextMsg]_vars

\* C19: a firing that finds the store missing, unreadable or not a complete
\* list has no recipients: it sends nothing, the process goes on, the job is
\* fired at once, and the other jobs are left as they are.
C19_UnreadableStoreAtFireTime ==
    [][\A j \in JobIds :
         (/\ SameRun
          /\ jobs[j].st = "armed"
          /\ jobs'[j].st # "armed"
          /\ (~file.exists \/ jobs'[j].rerr \/ ~json_loads(file.text).ok))
           => /\ jobs'[j].st = "fired"
              /\ jobs'[j].subs = <<>>
              /\ jobs'[j].log = <<>>
              /\ \A k \in JobIds : k # j => jobs'[k] = jobs[k]
              /\ file' = file]_vars

\* the read of the store failed at one firing, which sent nothing; a job due
\* later fired and sent to the subscribers
C19_Witness ==
    \E j, k \in JobIds :
        /\ jobs[j].st = "fired" /\ jobs[j].rerr /\ jobs[j].log = <<>>
        /\ jobs[k].when > jobs[j].when
        /\ jobs[k].st = "fired" /\ ~jobs[k].rerr /\ Len(jobs[k].log) >= 1

\* The queries: the process is serving, the clock stands at 09:00 or 23:00
\* local of 09/05/2025 (23:00 is the next day in UTC), and lines dated
\* yesterday, today and tomorrow are appended to the schedules.
MaxRows == 7

Serving(c) ==
    /\ file = MissingFile
    /\ last = NoReply
    /\ csv = c
    /\ now \in {Instant(FirstDay + 1, 9 * 60, UtcOffset), Instant(FirstDay + 1, 23 * 60, UtcOffset)}
    /\ phase = "serving"
    /\ jobs = <<>>
    /\ runs = 1
    /\ fires = <<>>
    /\ answer = NoAnswer

NoRows == [f \in Range(Files) |-> <<>>]

InitQuery == Serving(NoRows)

TotalRows == Len(csv[Files[1]]) + Len(csv[Files[2]])

QueryAdds == {<<Files[1], Row(RawDate(8, 5, 2025, 4), NumFields)>>,
              <<Files[1], Row(RawDate(9, 5, 25, 2), NumFields)>>,
              <<Files[1], Row(RawDate(10, 5, 2025, 4), NumFields)>>,
              <<Files[2], Row(RawDate(10, 5, 25, 2), NumFields)>>}

NextQuery ==
    \/ \E a \in QueryAdds : TotalRows < MaxRows /\ AddRow(a[1], a[2])
    \/ proximos
    \/ hoje

SpecQuery == InitQuery /\ [][NextQuery]_vars

\* The loading: up to MaxLoad lines, well-formed, with a date that does not
\* parse, or cut short, in the two schedules.
MaxLoad == 3

LoadRows == {Row(RawDate(10, 5, 2025, 4), NumFields),
             RowText(RawDate(11, 5, 25, 2), NumFields, "", <<" ", "x", " ">>, <<" ">>),
             Row(RawDate(31, 2, 2025, 4), NumFields),
             Row(RawDate(10, 5, 202, 3), NumFields),
             Row(RawDate(12, 5, 2025, 4), 3),
             Row(RawDate(12, 13, 25, 2), 3)}

NextLoad ==
    \/ \E f \in Range(Files), r \in LoadRows : TotalRows < MaxLoad /\ AddRow(f, r)
    \/ proximos
    \/ hoje

SpecLoad == InitQuery /\ [][NextLoad]_vars

\* -------------------------------------------------------- the subscriber store

\* the handler of the step just taken met no fault of the file system
LastClean == ~last.rf /\ last.wr # "error"

\* C6: the persisted list never holds a chat twice; right after a /start of
\* cid (its read and write of the file not failing) the list holds cid exactly
\* once, also when cid was there already; right after a /stop of cid it does
\* not hold cid, also when cid was absent or the store file missing.
C6_SetSemantics ==
    /\ NoDup(StoreList)
    /\ (last.cmd = "start" /\ LastClean) => Count(last.cid, StoreList) = 1
    /\ (last.cmd = "stop" /\ LastClean) => last.cid \notin Range(StoreList)

\* a /start of a chat that was subscribed already, with another one in the list
C6_Witness ==
    /\ last.cmd = "start"
    /\ last.wr = "none"
    /\ LastClean
    /\ Len(StoreList) = 2
    /\ Count(last.cid, StoreList) = 1

\* C17: the load-modify-save of every /start and /stop works on the list
\* persisted at that moment, also with fan-outs in flight, and nothing else
\* writes the store: every handler whose write succeeded leaves the members
\* it found plus (start) or minus (stop) its own chat, so the store is what
\* the handlers in the order they ran make of it.
C17_NoLostUpdate ==
    [][/\ file' # file => last'.cmd \in {"start", "stop"}
       /\ (last'.cmd = "start" /\ last'.wr # "error" /\ ~last'.rf) =>
            Range(StoreList') = Range(StoreList) \cup {last'.cid}
       /\ (last'.cmd = "stop" /\ last'.wr # "error" /\ ~last'.rf) =>
            Range(StoreList') = Range(StoreList) \ {last'.cid}]_vars

\* a chat subscribed while the fan-out to the one subscribed before it was
\* in flight: both are in the store
C17_Witness ==
    /\ last.cmd = "start"
    /\ last.wr = "ok"
    /\ Len(StoreList) = 2
    /\ \E j \in JobIds : /\ jobs[j].st = "running"
                          /\ Len(jobs[j].subs) = 1
                          /\ jobs[j].subs[1] # last.cid

\* C18: a /start or /stop changes the membership of its own chat only: every
\* other chat is in the store after it exactly if it was before, also when
\* the handler could not read the store (the write itself not failing).
C18_OnlyOwnMembership ==
    [][(last'.cmd \in {"start", "stop"} /\ last'.wr # "error") =>
         \A c \in Chats \ {last'.cid} :
             (c \in Range(StoreList')) <=> (c \in Range(StoreList))]_vars

\* C7: a /start or /stop whose write of the store failed answers with the
\* error reply, not with the confirmation.
C7_WriteFailureSurfaces == last.wr = "error" => last.reply = "erro"

\* C8: the store file, when it exists, always holds a complete list.
C8_StoreAlwaysComplete == file.exists => json_loads(file.text).ok

\* ------------------------------------------------------------------ loading

\* a record with a date that parses and all its fields
WellFormed(row) == parse_date(row.data).ok /\ row.n = NumFields

DatesOf(evs) == [i \in 1..Len(evs) |-> evs[i].date]

\* the dates of the well-formed records of file f, in the order of the file
ExpectedDates(f) ==
    LET rows == SelectSeq(csv[f], WellFormed)
    IN  [i \in 1..Len(rows) |-> parse_date(rows[i].data).date]

\* the dates of the events load_events returns for file f
LoadedDates(f) ==
    LET from(e) == e.src = f IN DatesOf(SelectSeq(load_events, from))

\* C9: load_events returns one event for every record that has a date that
\* parses and all its fields, whatever malformed records stand before or
\* after it in the same file or in another one.
C9_PerRecordRejection == \A f \in Range(Files) : LoadedDates(f) = ExpectedDates(f)

\* ------------------------------------------------------------------ queries

\* the loaded events of source src dated today or later
Qualifying(src) ==
    LET keep(e) == e.src = src /\ e.date >= LocalDate(now)
    IN  SelectSeq(load_events, keep)

Min(a, b) == IF a < b THEN a ELSE b

\* the list of one group of the answer of /proximos
ProximosGroupOk(g) ==
    LET q == Qualifying(g.src)
    IN  /\ Len(g.lista) = Min(LIMITE, Len(q))
        /\ Len(g.lista) >= 1
        /\ \A i \in 1..Len(g.lista) : /\ g.lista[i].src = g.src
                                      /\ g.lista[i].date >= LocalDate(now)
                                      /\ Count(g.lista[i], g.lista) <= Count(g.lista[i], q)
        /\ \A i, j \in 1..Len(g.lista) : i < j => g.lista[i].date <= g.lista[j].date
        /\ \A k \in 1..Len(q) :
             Count(q[k], g.lista) < Count(q[k], q)
               => \A i \in 1..Len(g.lista) : g.lista[i].date <= q[k].date

\* C10: /proximos lists, for every source with an event dated today or later
\* (one group per source), only such events of that source, in ascending
\* date order, min(5, their number) of them, and no unlisted one is earlier
\* than a listed one; it answers "no future event" exactly when there is none.
C10_Proximos ==
    answer.cmd = "proximos" =>
        /\ answer.none <=> \A f \in Range(Files) : Len(Qualifying(f)) = 0
        /\ \A f \in Range(Files) :
             Cardinality({i \in 1..Len(answer.groups) : answer.groups[i].src = f})
               = IF Len(Qualifying(f)) = 0 THEN 0 ELSE 1
        /\ \A i \in 1..Len(answer.groups) : ProximosGroupOk(answer.groups[i])

\* a source with more than five events from today on, of different dates and
\* not in date order in its file, and one of yesterday: five are listed
C10_Witness ==
    /\ answer.cmd = "proximos"
    /\ \E i \in 1..Len(answer.groups) :
         LET g == answer.groups[i]
         IN  /\ Len(g.lista) = LIMITE
             /\ Len(Qualifying(g.src)) > LIMITE
             /\ g.lista[1].date < g.lista[LIMITE].date
             /\ \E k \in 1..Len(csv[g.src]) : parse_date(csv[g.src][k].data).date < LocalDate(now)
             /\ \E k \in 2..Len(csv[g.src]) :
                  parse_date(csv[g.src][k].data).date < parse_date(csv[g.src][k - 1].data).date

\* the loaded events of source src dated the day after today, local time
TomorrowOf(src) ==
    LET keep(e) == e.src = src /\ e.date = LocalDate(now) + 1
    IN  SelectSeq(load_events, keep)

\* C11: /hoje lists, one group per source that has one, exactly the loaded
\* events dated today + 1 on the local calendar, each source's in the order
\* they were loaded, and it answers "no event tomorrow" exactly when no
\* loaded event has that date.
C11_Hoje ==
    answer.cmd = "hoje" =>
        /\ answer.none <=> \A f \in Range(Files) : Len(TomorrowOf(f)) = 0
        /\ answer.none => Len(answer.groups) = 0
        /\ \A f \in Range(Files) :
             Cardinality({i \in 1..Len(answer.groups) : answer.groups[i].src = f})
               = IF Len(TomorrowOf(f)) = 0 THEN 0 ELSE 1
        /\ \A i \in 1..Len(answer.groups) :
             answer.groups[i].lista = TomorrowOf(answer.groups[i].src)

\* at 23:00 local, when the UTC date is already tomorrow: both sources have
\* an event tomorrow, and events of today and of yesterday are left out
C11_Witness ==
    /\ answer.cmd = "hoje"
    /\ Len(answer.groups) = 2
    /\ LocalDate(now) # now \div DayMinutes
    /\ \E k \in 1..Len(load_events) : load_events[k].date = LocalDate(now)
    /\ \E k \in 1..Len(load_events) : load_events[k].date = LocalDate(now) - 1

\* ---------------------------------------------------------------- reminders

\* the message of a firing holds the event's day/month and title, and its
\* place and description exactly when they are not empty
MsgBodyOk(job) ==
    /\ Ordinal(YearOf(job.ev.date), job.msg.data[2], job.msg.data[1]) = job.ev.date
    /\ job.msg.evento = job.ev.title
    /\ job.msg.local = (IF job.ev.local = <<>> THEN <<>> ELSE <<job.ev.local>>)
    /\ job.msg.descr = (IF job.ev.descr = <<>> THEN <<>> ELSE <<job.ev.descr>>)

\* C12: the message of a firing holds the event's date (day/month) and title,
\* the place line exactly when the place is not empty, the description line
\* exactly when the description is not empty, and is labelled with the label
\* of the event's source, the one /proximos and /hoje show.
C12_ReminderMessage ==
    \A j \in JobIds :
        jobs[j].st # "armed" => /\ MsgBodyOk(jobs[j])
                                /\ jobs[j].msg.cronograma = nome(jobs[j].ev.src)

====
